---- MODULE Spec2Model ----
(***************************************************************************)
(* Model of cool_btc_bot.py: the BTC price watcher, the subscribe /        *)
(* unsubscribe / interval handlers, and the two JSON files that persist    *)
(* the subscriber baselines and the shared interval.                       *)
(*                                                                         *)
(* Steps are cut where the asyncio code can be suspended: the watcher is   *)
(* atomic between its awaits (sleep, send_message), a handler is atomic    *)
(* up to its first send.  Updates are processed one at a time (the         *)
(* Application is built without concurrent_updates), so at most one        *)
(* handler is in progress, while the watcher task interleaves with it.     *)
(***************************************************************************)
EXTENDS Integers, Sequences, FiniteSets, TLC

(* ------------------------------ bounds -------------------------------- *)

\* chat ids that talk to the bot
Uids == {1, 2}

\* prices Binance can answer with (deltas 50, 150 and 200)
Prices == {100, 150, 300}

\* how many entries the subscriber dict may hold
MaxSubs == 2

\* how many disruptions (a failed save, a kill of the process) one run may see
MaxFaults == 1

\* how many fetches in a row may fail
MaxFailSeq == 1

\* how many fetches in a row may fail where the failure counter is followed
MaxFailRun == 6

\* free texts a user can type after "step_custom": sequences of characters
Texts == { <<"a">>, <<"0">>, <<"-", "5">>, <<"2", "5">> }

(* --------------------------- program constants ------------------------ *)

DEFAULT_INT == 200

CHOICES == <<50, 100, 200, 500>>

FAIL_LIMIT == 5

(* ------------------------------ values -------------------------------- *)

\* Python's None where a price is expected (get_price, dict.pop), and the
\* mark for a call that raises instead of returning
None == 0 - 1

Raised == 0 - 2

\* a file: absent, holding a truncated text, or holding a whole JSON document
\* (of a temporary file, which nothing reads, only that much is kept)
NoFile == [st |-> "absent", doc |-> << >>]

Partial == [st |-> "partial", doc |-> << >>]

File(doc) == [st |-> "whole", doc |-> doc]

\* dict keys: an int key (a chat id as the handlers see it) and a str key
\* (what json.loads gives back); 1 == "1" is False in Python
IntKey(u) == <<"int", u>>

StrKey(s) == <<"str", s>>

\* json.dumps coerces an int key to its decimal string
Str(k) == <<"str", k[2]>>

(* ------------- Python dict: insertion-ordered key/value pairs ---------- *)

EmptyDict == << >>

Item(k, v) == [k |-> k, v |-> v]

Keys(d) == { d[i].k : i \in DOMAIN d }

Has(d, k) == k \in Keys(d)

\* d.get(k, default)
Get(d, k, default) ==
  IF Has(d, k) THEN d[CHOOSE i \in DOMAIN d : d[i].k = k].v ELSE default

\* d[k] = v : an existing key keeps its place, a new key goes last
Put(d, k, v) ==
  IF Has(d, k)
  THEN [i \in DOMAIN d |-> IF d[i].k = k THEN Item(k, v) ELSE d[i]]
  ELSE Append(d, Item(k, v))

\* the dict after d.pop(k, None)
Pop(d, k) == SelectSeq(d, LAMBDA it : it.k # k)

\* Python truthiness of a popped value: None and 0 are falsy
Truthy(v) == v # None /\ v # 0

(* ---------------------------- JSON text -------------------------------- *)

\* json.dumps(data): the members in dict order, every key as a string; an int
\* key and the str key of the same digits give two members with one name
Dumps(d) == [i \in DOMAIN d |-> Item(Str(d[i].k), d[i].v)]

RECURSIVE LoadsFrom(_, _, _)
LoadsFrom(doc, i, acc) ==
  IF i > Len(doc) THEN acc
  ELSE LoadsFrom(doc, i + 1, Put(acc, doc[i].k, doc[i].v))

\* json.loads(text): str keys; of two members with one name the last value wins
Loads(doc) == LoadsFrom(doc, 1, EmptyDict)

\* read_json(path, default): the default when the file is missing or json.loads
\* raises on it
read_json(file, default) ==
  IF file.st = "absent" THEN default
  ELSE IF file.st = "partial" THEN default
  ELSE Loads(file.doc)

\* outcomes of one write_json call: done, an OSError while writing the temporary
\* file or while replacing the target, the process killed at either place
WriteOutcomes == {"ok", "err_write", "err_replace", "crash_write", "crash_replace"}

\* a write_json whose OSError is not caught: the failed save ends the process
CrashesOnError(wo) == wo # "ok"

\* write_json catches Exception and logs it; only a kill ends the process
Crashes(wo) == wo \in {"crash_write", "crash_replace"}

\* write_json as it would be without the temporary file: the text written
\* straight into the target
write_json_inplace(file, tmp, data, wo) ==
  IF wo \in {"err_write", "crash_write"} THEN [file |-> Partial, tmp |-> tmp]
  ELSE [file |-> File(Dumps(data)), tmp |-> tmp]

\* write_json without `tmp.replace(path)`: the data stays in the temporary file
write_json_noreplace(file, tmp, data, wo) ==
  IF wo \in {"err_write", "crash_write"} THEN [file |-> file, tmp |-> Partial]
  ELSE [file |-> file, tmp |-> File(<< >>)]

\* write_json(path, data): the target and the temporary file afterwards
write_json(file, tmp, data, wo) ==
  IF wo = "ok" THEN [file |-> File(Dumps(data)), tmp |-> NoFile]
  ELSE IF wo \in {"err_write", "crash_write"} THEN [file |-> file, tmp |-> Partial]
  ELSE [file |-> file, tmp |-> File(<< >>)]

(* ------------------------------ int(text) ------------------------------ *)

Digits == <<"0", "1", "2", "3", "4", "5", "6", "7", "8", "9">>

IsDigit(c) == \E i \in DOMAIN Digits : Digits[i] = c

DigitVal(c) == (CHOOSE i \in DOMAIN Digits : Digits[i] = c) - 1

RECURSIVE Decimal(_, _)
Decimal(t, n) == IF n = 0 THEN 0 ELSE 10 * Decimal(t, n - 1) + DigitVal(t[n])

AllDigits(t) == Len(t) > 0 /\ \A i \in DOMAIN t : IsDigit(t[i])

\* int(text): [ok, val]; ok is FALSE where Python raises ValueError
ParseInt(t) ==
  IF AllDigits(t) THEN [ok |-> TRUE, val |-> Decimal(t, Len(t))]
  ELSE IF Len(t) > 1 /\ t[1] \in {"-", "+"} /\ AllDigits(Tail(t))
       THEN [ok |-> TRUE,
             val |-> IF t[1] = "-" THEN 0 - Decimal(Tail(t), Len(t) - 1)
                     ELSE Decimal(Tail(t), Len(t) - 1)]
       ELSE [ok |-> FALSE, val |-> 0]

(* ------------------------------- state --------------------------------- *)

VARIABLES
  _subs,        \* dict: key -> last notified price
  _interval,    \* the shared step
  _fail_seq,    \* consecutive failed fetches
  esc,          \* "limit reached" log entries since the last successful fetch
  await_int,    \* ctx.user_data["await_int"] of each chat
  reply,        \* what msg_text last answered: "none", "rejected", "changed"
  state_file,   \* btc_bot_state.json
  state_tmp,    \* btc_bot_state.tmp
  collab_file,  \* btc_collab.json
  collab_tmp,   \* btc_collab.tmp
  wpc,          \* watcher: "polling" (about to run a cycle), "send", "idle" (asleep)
  w,            \* the watcher's locals while a cycle is suspended at a send
  hpc,          \* handler in progress: "idle" or "bcast"
  h,            \* change_interval's locals while suspended at a send
  faults        \* disruptions so far

vars == <<_subs, _interval, _fail_seq, esc, await_int, reply, state_file, state_tmp,
          collab_file, collab_tmp, wpc, w, hpc, h, faults>>

files == <<state_file, state_tmp, collab_file, collab_tmp>>

NoCycle == [p |-> 0, step |-> 0, snap |-> << >>, i |-> 0, failed |-> FALSE]

NoHandler == [by |-> 0, old |-> 0, new |-> 0, snap |-> << >>, i |-> 0, via |-> "none"]

Abs(x) == IF x < 0 THEN 0 - x ELSE x

(* ------------------------------ get_price ------------------------------ *)

\* what one call of get_price can end with: a price, None (a caught HTTP error
\* or a caught ValueError/KeyError), or an exception it does not catch
FetchOutcomes == Prices \cup {None, Raised}

\* the outcomes drawn in a state: a failure only while fewer than cap fetches
\* in a row have failed
Fetches(cap) == IF _fail_seq < cap THEN FetchOutcomes ELSE FetchOutcomes \ {None}

\* _fail_seq after the call
FailSeqAfter(fo) ==
  IF fo \in Prices THEN 0
  ELSE IF fo = None THEN _fail_seq + 1
  ELSE _fail_seq

\* `if _fail_seq >= FAIL_LIMIT`, evaluated after a caught failure
ReachedLimit(n) == n >= FAIL_LIMIT

\* esc after the call: a price ends the run of failures, a caught failure at or
\* over the limit logs one more entry, an exception that escapes logs nothing
EscAfter(fo) ==
  IF fo \in Prices THEN 0
  ELSE IF fo = None /\ ReachedLimit(_fail_seq + 1) THEN esc + 1
  ELSE esc

(* -------------------------------- main --------------------------------- *)

DefaultCollab == << Item(StrKey("interval"), DEFAULT_INT) >>

\* main() on the files sf and cf: both globals reloaded, everything else as
\* in a fresh process, the watcher task about to run its first cycle
Boot(sf, cf) ==
  /\ _subs' = read_json(sf, EmptyDict)
  /\ _interval' = Get(read_json(cf, DefaultCollab), StrKey("interval"), DEFAULT_INT)
  /\ _fail_seq' = 0
  /\ esc' = 0
  /\ await_int' = [u \in Uids |-> FALSE]
  /\ reply' = "none"
  /\ wpc' = "polling"
  /\ w' = NoCycle
  /\ hpc' = "idle"
  /\ h' = NoHandler

Init ==
  /\ _subs = EmptyDict
  /\ _interval = DEFAULT_INT
  /\ _fail_seq = 0
  /\ esc = 0
  /\ await_int = [u \in Uids |-> FALSE]
  /\ reply = "none"
  /\ state_file = NoFile
  /\ state_tmp = NoFile
  /\ collab_file = NoFile
  /\ collab_tmp = NoFile
  /\ wpc = "polling"
  /\ w = NoCycle
  /\ hpc = "idle"
  /\ h = NoHandler
  /\ faults = 0

\* the process is killed (at any await) and started again
Restart ==
  /\ faults < MaxFaults
  /\ faults' = faults + 1
  /\ Boot(state_file, collab_file)
  /\ UNCHANGED files

\* write_json(STATE_FILE, data)
SaveState(data, wo) ==
  LET r == write_json(state_file, state_tmp, data, wo) IN
  /\ wo = "ok" \/ faults < MaxFaults
  /\ state_file' = r.file
  /\ state_tmp' = r.tmp
  /\ faults' = IF wo = "ok" THEN faults ELSE faults + 1
  /\ UNCHANGED <<collab_file, collab_tmp>>

\* a change_interval that saves only a value that differs from the current one
SaveCollabIfChanged(val, wo) ==
  LET r == write_json(collab_file, collab_tmp, << Item(StrKey("interval"), val) >>, wo) IN
  IF val = _interval
  THEN wo = "ok" /\ UNCHANGED <<files, faults>>
  ELSE /\ wo = "ok" \/ faults < MaxFaults
       /\ collab_file' = r.file
       /\ collab_tmp' = r.tmp
       /\ faults' = IF wo = "ok" THEN faults ELSE faults + 1
       /\ UNCHANGED <<state_file, state_tmp>>

\* write_json(COLLAB_FILE, {"interval": val})
SaveCollab(val, wo) ==
  LET r == write_json(collab_file, collab_tmp, << Item(StrKey("interval"), val) >>, wo) IN
  /\ wo = "ok" \/ faults < MaxFaults
  /\ collab_file' = r.file
  /\ collab_tmp' = r.tmp
  /\ faults' = IF wo = "ok" THEN faults ELSE faults + 1
  /\ UNCHANGED <<state_file, state_tmp>>

(* ------------------------------ handlers ------------------------------- *)

\* the subscribe handler without its check of the fetched price
NoPriceUnchecked(p) == FALSE

\* cb_btn "sub": `if p is None`
NoPrice(p) == p = None

\* cb_btn, data == "sub"
Subscribe(u, fo, wo) ==
  /\ hpc = "idle"
  /\ Has(_subs, IntKey(u)) \/ Len(_subs) < MaxSubs
  /\ IF fo = Raised \/ NoPrice(fo)
     THEN /\ wo = "ok"
          /\ _fail_seq' = FailSeqAfter(fo)
          /\ esc' = EscAfter(fo)
          /\ UNCHANGED <<_subs, _interval, await_int, reply, files, wpc, w, hpc, h, faults>>
     ELSE /\ SaveState(Put(_subs, IntKey(u), fo), wo)
          /\ IF Crashes(wo)
             THEN Boot(state_file', collab_file')
             ELSE /\ _subs' = Put(_subs, IntKey(u), fo)
                  /\ _fail_seq' = FailSeqAfter(fo)
                  /\ esc' = EscAfter(fo)
                  /\ UNCHANGED <<_interval, await_int, reply, wpc, w, hpc, h>>

\* cb_btn, data == "unsub"
Unsubscribe(u, wo) ==
  /\ hpc = "idle"
  /\ IF Truthy(Get(_subs, IntKey(u), None))
     THEN /\ SaveState(Pop(_subs, IntKey(u)), wo)
          /\ IF Crashes(wo)
             THEN Boot(state_file', collab_file')
             ELSE /\ _subs' = Pop(_subs, IntKey(u))
                  /\ UNCHANGED <<_interval, _fail_seq, esc, await_int, reply, wpc, w, hpc, h>>
     ELSE /\ wo = "ok"
          /\ _subs' = Pop(_subs, IntKey(u))
          /\ UNCHANGED <<_interval, _fail_seq, esc, await_int, reply, files, wpc, w, hpc, h, faults>>

\* cb_btn "price" and cmd_price
PriceQuery(fo) ==
  /\ hpc = "idle"
  /\ _fail_seq' = FailSeqAfter(fo)
  /\ esc' = EscAfter(fo)
  /\ UNCHANGED <<_subs, _interval, await_int, reply, files, wpc, w, hpc, h, faults>>

\* change_interval's loop: the first place >= i of list(_subs) that is not
\* skipped (`uid == by_uid and not notify_changer`, notify_changer False at
\* every call), Len + 1 when there is none
RECURSIVE NextRecipient(_, _, _)
NextRecipient(snap, i, by) ==
  IF i > Len(snap) THEN i
  ELSE IF snap[i] = IntKey(by) THEN NextRecipient(snap, i + 1, by)
  ELSE i

\* list(_subs)
KeyList(d) == [i \in DOMAIN d |-> d[i].k]

\* the caller of change_interval once it has returned: msg_text answers its
\* sender with the announcement, cb_btn answers nothing more
ReplyAfter(via) == IF via = "text" THEN "changed" ELSE reply

\* change_interval(val, by_uid, bot) up to its first send; aw is the caller's
\* user_data when the process survives the save, via the caller ("button" for
\* cb_btn, "text" for msg_text)
ChangeInterval(val, by, wo, aw, via) ==
  LET snap == KeyList(_subs)
      j    == NextRecipient(snap, 1, by)
  IN
  /\ SaveCollab(val, wo)
  /\ IF Crashes(wo)
     THEN Boot(state_file', collab_file')
     ELSE /\ _interval' = val
          /\ await_int' = aw
          /\ IF j <= Len(snap)
             THEN /\ hpc' = "bcast"
                  /\ h' = [by |-> by, old |-> _interval, new |-> val, snap |-> snap,
                           i |-> j, via |-> via]
                  /\ reply' = reply
             ELSE /\ hpc' = "idle"
                  /\ h' = NoHandler
                  /\ reply' = ReplyAfter(via)
          /\ UNCHANGED <<_subs, _fail_seq, esc, wpc, w>>

\* change_interval resumed after bot.send_message(h.snap[h.i]) returned or
\* raised TelegramError (logged): on to the next recipient
BcastSendDone(ok) ==
  LET j == NextRecipient(h.snap, h.i + 1, h.by) IN
  /\ hpc = "bcast"
  /\ IF j <= Len(h.snap)
     THEN /\ h' = [h EXCEPT !.i = j]
          /\ hpc' = "bcast"
          /\ reply' = reply
     ELSE /\ h' = NoHandler
          /\ hpc' = "idle"
          /\ reply' = ReplyAfter(h.via)
  /\ UNCHANGED <<_subs, _interval, _fail_seq, esc, await_int, files, wpc, w, faults>>

\* cb_btn, data == "step_<n>" with n one of CHOICES
StepButton(u, n, wo) ==
  /\ hpc = "idle"
  /\ ChangeInterval(n, u, wo, await_int, "button")

\* cb_btn, data == "step_custom"
CustomButton(u) ==
  /\ hpc = "idle"
  /\ await_int' = [await_int EXCEPT ![u] = TRUE]
  /\ UNCHANGED <<_subs, _interval, _fail_seq, esc, reply, files, wpc, w, hpc, h, faults>>

\* msg_text letting zero through
RejectedNegative(val) == val < 0

\* msg_text without the test of the sign
RejectedNever(val) == FALSE

\* msg_text: `if val <= 0: raise ValueError`
Rejected(val) == val <= 0

\* msg_text reading the flag with get: the flag stays set
FlagKept(aw, u) == aw

\* msg_text: `ctx.user_data.pop("await_int", False)` leaves the flag unset
FlagAfterText(aw, u) == [aw EXCEPT ![u] = FALSE]

\* msg_text
MsgText(u, t, wo) ==
  LET r  == ParseInt(t)
      aw == FlagAfterText(await_int, u)
  IN
  /\ hpc = "idle"
  /\ IF ~await_int[u]
     THEN /\ wo = "ok"
          /\ UNCHANGED vars
     ELSE IF ~r.ok \/ Rejected(r.val)
     THEN /\ wo = "ok"
          /\ await_int' = aw
          /\ reply' = "rejected"
          /\ UNCHANGED <<_subs, _interval, _fail_seq, esc, files, wpc, w, hpc, h, faults>>
     ELSE ChangeInterval(r.val, u, wo, aw, "text")

(* ------------------------------- watcher ------------------------------- *)

\* `if abs(p - last) >= step`
Due(p, last, step) == Abs(p - last) >= step

\* the for loop over list(_subs.items()): the first place >= i whose entry is
\* due, Len + 1 when there is none
RECURSIVE NextDue(_, _, _, _)
NextDue(snap, i, p, step) ==
  IF i > Len(snap) THEN i
  ELSE IF Due(p, snap[i].v, step) THEN i
  ELSE NextDue(snap, i + 1, p, step)

\* the loop left at the first send that raises
ResumeAtBreak(ok, i, n) == IF ok THEN i + 1 ELSE n + 1

\* where the loop goes on after the send to place i returned (ok) or raised
\* TelegramError (caught inside the loop): the next place in both cases
ResumeAt(ok, i, n) == i + 1

\* the baselines after the send to key k: `_subs[uid] = p` is the statement
\* after the send inside the try, so it is skipped when the send raises
AfterSend(d, k, p, ok) == IF ok THEN Put(d, k, p) ELSE d

\* the watcher without its outer try: an error of the cycle ends the task
ExitAfterCycleError == "dead"

\* where the watcher is after `except Exception` caught an error of the cycle
AfterCycleError == "idle"

\* asyncio.sleep(POLL_SEC) is over
WatcherTick ==
  /\ wpc = "idle"
  /\ wpc' = "polling"
  /\ UNCHANGED <<_subs, _interval, _fail_seq, esc, await_int, reply, files, w, hpc, h, faults>>

\* the end of a cycle: write_json(STATE_FILE, _subs), then sleep
CycleEnd(subs, fs, es, wo) ==
  /\ SaveState(subs, wo)
  /\ IF Crashes(wo)
     THEN Boot(state_file', collab_file')
     ELSE /\ _subs' = subs
          /\ _fail_seq' = fs
          /\ esc' = es
          /\ wpc' = "idle"
          /\ w' = NoCycle
          /\ UNCHANGED <<_interval, await_int, reply, hpc, h>>

\* a watcher that takes whatever get_price returned for a price
HasPriceAlways(p) == TRUE

\* watcher: `if p is not None`
HasPrice(p) == p # None

\* one cycle from get_price() to its first await: the first send, or the sleep
WatcherCycle(fo, wo) ==
  LET j == NextDue(_subs, 1, fo, _interval) IN
  /\ wpc = "polling"
  /\ IF fo = Raised \/ ~HasPrice(fo)
     THEN /\ wo = "ok"
          /\ _fail_seq' = FailSeqAfter(fo)
          /\ esc' = EscAfter(fo)
          /\ wpc' = IF fo = Raised THEN AfterCycleError ELSE "idle"
          /\ UNCHANGED <<_subs, _interval, await_int, reply, files, w, hpc, h, faults>>
     ELSE IF j <= Len(_subs)
     THEN /\ wo = "ok"
          /\ _fail_seq' = FailSeqAfter(fo)
          /\ esc' = EscAfter(fo)
          /\ wpc' = "send"
          /\ w' = [p |-> fo, step |-> _interval, snap |-> _subs, i |-> j, failed |-> FALSE]
          /\ UNCHANGED <<_subs, _interval, await_int, reply, files, hpc, h, faults>>
     ELSE CycleEnd(_subs, FailSeqAfter(fo), EscAfter(fo), wo)

\* a loop that reads the global at every comparison
CycleStepLive(c) == _interval

\* watcher: `step = _interval`, read once before the loop and used by every
\* comparison and every alert text of the cycle
CycleStep(c) == c.step

\* the cycle resumed after app.bot.send_message(uid, txt) for place w.i
\* returned (ok) or raised TelegramError, up to its next await
WatcherSendDone(ok, wo) ==
  LET subs == AfterSend(_subs, w.snap[w.i].k, w.p, ok)
      j    == NextDue(w.snap, ResumeAt(ok, w.i, Len(w.snap)), w.p, CycleStep(w))
  IN
  /\ wpc = "send"
  /\ IF j <= Len(w.snap)
     THEN /\ wo = "ok"
          /\ _subs' = subs
          /\ w' = [w EXCEPT !.i = j, !.failed = w.failed \/ ~ok]
          /\ UNCHANGED <<_interval, _fail_seq, esc, await_int, reply, files, wpc, hpc, h, faults>>
     ELSE CycleEnd(subs, _fail_seq, esc, wo)

(* ------------------------------ next state ----------------------------- *)

Choices == { CHOICES[i] : i \in DOMAIN CHOICES }

Next ==
  \/ \E u \in Uids, fo \in Fetches(MaxFailSeq), wo \in WriteOutcomes : Subscribe(u, fo, wo)
  \/ \E u \in Uids, wo \in WriteOutcomes : Unsubscribe(u, wo)
  \/ \E fo \in Fetches(MaxFailSeq) : PriceQuery(fo)
  \/ \E u \in Uids, n \in Choices, wo \in WriteOutcomes : StepButton(u, n, wo)
  \/ \E u \in Uids : CustomButton(u)
  \/ \E u \in Uids, t \in Texts, wo \in WriteOutcomes : MsgText(u, t, wo)
  \/ \E ok \in BOOLEAN : BcastSendDone(ok)
  \/ WatcherTick
  \/ \E fo \in Fetches(MaxFailSeq), wo \in WriteOutcomes : WatcherCycle(fo, wo)
  \/ \E ok \in BOOLEAN, wo \in WriteOutcomes : WatcherSendDone(ok, wo)
  \/ Restart

Spec == Init /\ [][Next]_vars

(* Component specifications: the same state and the same actions, each with
   the actions of one part of the program.  NextCore is the subscription
   registry and the watcher (the interval stays what main loaded); NextInt is
   the interval handlers with the subscriptions they broadcast to. *)

\* the price every subscription of NextInt is seeded with
SeedPrice == CHOOSE p \in Prices : \A q \in Prices : p <= q

NextCore ==
  \/ \E u \in Uids, fo \in Fetches(MaxFailSeq), wo \in WriteOutcomes : Subscribe(u, fo, wo)
  \/ \E u \in Uids, wo \in WriteOutcomes : Unsubscribe(u, wo)
  \/ WatcherTick
  \/ \E fo \in Fetches(MaxFailSeq), wo \in WriteOutcomes : WatcherCycle(fo, wo)
  \/ \E ok \in BOOLEAN, wo \in WriteOutcomes : WatcherSendDone(ok, wo)
  \/ Restart

CoreSpec == Init /\ [][NextCore]_vars

NextInt ==
  \/ \E u \in Uids, wo \in WriteOutcomes : Subscribe(u, SeedPrice, wo)
  \/ \E u \in Uids, wo \in WriteOutcomes : Unsubscribe(u, wo)
  \/ \E u \in Uids, n \in Choices, wo \in WriteOutcomes : StepButton(u, n, wo)
  \/ \E u \in Uids : CustomButton(u)
  \/ \E u \in Uids, t \in Texts, wo \in WriteOutcomes : MsgText(u, t, wo)
  \/ \E ok \in BOOLEAN : BcastSendDone(ok)
  \/ Restart

IntSpec == Init /\ [][NextInt]_vars


\* the watcher of CoreSpec under the scheduling of the event loop: a task that
\* can run does run, a sleep ends, a send returns or raises
LiveCoreSpec ==
  /\ CoreSpec
  /\ WF_vars(WatcherTick)
  /\ WF_vars(\E fo \in Fetches(MaxFailSeq), wo \in WriteOutcomes : WatcherCycle(fo, wo))
  /\ WF_vars(\E ok \in BOOLEAN, wo \in WriteOutcomes : WatcherSendDone(ok, wo))

\* the calls of get_price (price button, subscribe button, watcher) with runs
\* of failed fetches up to MaxFailRun long, every save succeeding
NextFetch ==
  \/ \E fo \in Fetches(MaxFailRun) : PriceQuery(fo)
  \/ \E u \in Uids, fo \in Fetches(MaxFailRun) : Subscribe(u, fo, "ok")
  \/ WatcherTick
  \/ \E fo \in Fetches(MaxFailRun) : WatcherCycle(fo, "ok")
  \/ \E ok \in BOOLEAN : WatcherSendDone(ok, "ok")

FetchSpec == Init /\ [][NextFetch]_vars

\* the watcher next to the step buttons: subscriptions, threshold changes and
\* their broadcast, cycles; every fetch gives a price, every save succeeds
NextStep ==
  \/ \E u \in Uids, p \in Prices : Subscribe(u, p, "ok")
  \/ \E u \in Uids, n \in Choices : StepButton(u, n, "ok")
  \/ \E ok \in BOOLEAN : BcastSendDone(ok)
  \/ WatcherTick
  \/ \E p \in Prices : WatcherCycle(p, "ok")
  \/ \E ok \in BOOLEAN : WatcherSendDone(ok, "ok")

StepSpec == Init /\ [][NextStep]_vars

\* outcomes of write_json that leave the process running
Survived == WriteOutcomes \ {"crash_write", "crash_replace"}

\* the operations that save a record (subscribe, step buttons, the watcher's
\* cycle), with saves that succeed or fail with an OSError; the process is
\* never killed and every fetch gives a price
NextSave ==
  \/ \E u \in Uids, wo \in Survived : Subscribe(u, SeedPrice, wo)
  \/ \E u \in Uids, n \in Choices, wo \in Survived : StepButton(u, n, wo)
  \/ \E ok \in BOOLEAN : BcastSendDone(ok)
  \/ WatcherTick
  \/ \E p \in Prices, wo \in Survived : WatcherCycle(p, wo)
  \/ \E ok \in BOOLEAN, wo \in Survived : WatcherSendDone(ok, wo)

SaveSpec == Init /\ [][NextSave]_vars

(* ------------------------------- claims -------------------------------- *)

\* a step in which the suspended cycle goes on after its send (the process is
\* not killed in it: a start of the process leaves the watcher at "polling")
SendDoneStep == wpc = "send" /\ wpc' # "polling" /\ <<wpc', w'>> # <<wpc, w>>

\* the places after place i of the cycle's snapshot that are due, by the
\* arithmetic of the rule
DueAfter(c, i) == { j \in (i + 1)..Len(c.snap) : Abs(c.p - c.snap[j].v) >= c.step }

MinOf(S) == CHOOSE x \in S : \A y \in S : x <= y

\* the interval the collab file holds, as main reads it
PersistedInterval == Get(read_json(collab_file, DefaultCollab), StrKey("interval"), DEFAULT_INT)

\* C1: in a cycle a send is attempted to a subscriber iff abs(p - baseline) >=
\* threshold (the places the loop passes over are not due, the place it stops
\* at is), and after the alert to a subscriber its baseline is the new price
\* while every other baseline is what it was (stated for runs in which no save
\* has failed and the process was not killed).
C1_AlertIffDueThenBaselineIsPrice ==
  [][ faults' = 0 =>
      /\ (wpc' = "send" /\ <<wpc', w'>> # <<wpc, w>>) =>
           LET from == IF wpc = "send" THEN w.i ELSE 0 IN
           /\ Abs(w'.p - w'.snap[w'.i].v) >= w'.step
           /\ \A j \in (from + 1)..(w'.i - 1) : Abs(w'.p - w'.snap[j].v) < w'.step
      /\ (SendDoneStep /\ wpc' = "idle") => DueAfter(w, w.i) = {}
      /\ SendDoneStep =>
           /\ Get(_subs', w.snap[w.i].k, None) = w.p
           /\ \A k \in Keys(_subs) \ {w.snap[w.i].k} :
                Get(_subs', k, None) = Get(_subs, k, None)
    ]_vars

\* C2: after the send to a due subscriber has been attempted, that
\* subscriber's baseline is the new price, whether the send returned or raised
\* (stated for runs in which no save has failed and the process was not killed).
C2_BaselineResetOnAttempt ==
  [][ (faults' = 0 /\ SendDoneStep) => Get(_subs', w.snap[w.i].k, None) = w.p ]_vars

\* C3: an identifier without a baseline (never subscribed, or unsubscribed)
\* gets a baseline only by its own subscribe, under any interleaving of the
\* handlers with a watcher cycle suspended at a send (stated for runs in which
\* no save has failed and the process was not killed).
C3_NoBaselineUntilSubscribe ==
  [][ \A u \in Uids :
        (faults' = 0 /\ ~Has(_subs, IntKey(u)) /\ Has(_subs', IntKey(u))) =>
          \E fo \in Prices, wo \in WriteOutcomes : Subscribe(u, fo, wo)
    ]_vars

\* C4: when the persisted records hold what the last successful saves wrote
\* (the dump of the subscriber dict, the interval), a start of the process
\* reproduces the in-memory state: the same dict with the same keys, the
\* same interval.
C4_RestartReproducesState ==
  [][ (Restart /\ state_file = File(Dumps(_subs)) /\ PersistedInterval = _interval) =>
        (_subs' = _subs /\ _interval' = _interval)
    ]_vars

\* C5: when the send to one recipient has been attempted, failed or not, the
\* cycle goes on to the next due recipient of the same snapshot with the same
\* price and threshold, and ends only when none is left; and a recipient whose
\* send returned has the new price as its baseline.
C5_FailureDoesNotAbortCycle ==
  [][ /\ SendDoneStep =>
           IF DueAfter(w, w.i) = {}
           THEN wpc' = "idle"
           ELSE /\ wpc' = "send"
                /\ w'.i = MinOf(DueAfter(w, w.i))
                /\ w'.p = w.p /\ w'.step = w.step /\ w'.snap = w.snap
      /\ (\E wo \in WriteOutcomes : ~Crashes(wo) /\ WatcherSendDone(TRUE, wo)) =>
           Get(_subs', w.snap[w.i].k, None) = w.p
    ]_vars

\* C5 witness: a cycle in which a send has failed is suspended at the send to
\* a later recipient.
C5_Witness == wpc = "send" /\ w.failed /\ w.i > 1

\* C6: the shared threshold is > 0, in memory and in the persisted record,
\* after startup and after any sequence of step buttons and free texts.
C6_ThresholdPositive == _interval > 0 /\ PersistedInterval > 0

\* C6 witness: a free text has set the threshold (25 is no step button) and it
\* is persisted.
C6_Witness == _interval = 25 /\ PersistedInterval = 25 /\ collab_file.st = "whole"

\* a step in which the process is killed inside a write_json call
KilledInSave ==
  \E wo \in {"crash_write", "crash_replace"} :
    \/ \E u \in Uids, fo \in Prices : Subscribe(u, fo, wo)
    \/ \E u \in Uids : Unsubscribe(u, wo)
    \/ \E u \in Uids, n \in Choices : StepButton(u, n, wo)
    \/ \E u \in Uids, t \in Texts : MsgText(u, t, wo)
    \/ \E fo \in Prices : WatcherCycle(fo, wo)
    \/ \E ok \in BOOLEAN : WatcherSendDone(ok, wo)

\* C7: no step leaves a persisted record truncated; a step with a failed or
\* interrupted save leaves both records as they were; the process started
\* after a kill inside a save loads the records as they were before the save;
\* a step that changes one record leaves the other alone.
C7_AtomicSave ==
  [][ /\ state_file'.st # "partial" /\ collab_file'.st # "partial"
      /\ faults' > faults => (state_file' = state_file /\ collab_file' = collab_file)
      /\ KilledInSave =>
           /\ _subs' = read_json(state_file, EmptyDict)
           /\ _interval' = PersistedInterval
      /\ state_file' # state_file => collab_file' = collab_file
    ]_vars

\* C7 witness: the process was killed while a save of the baselines was
\* writing its temporary file, and it runs again with the old record loaded.
C7_Witness ==
  /\ state_tmp.st = "partial"
  /\ state_file.st = "whole"
  /\ _subs # EmptyDict
  /\ _subs = Loads(state_file.doc)

\* C8: while the announcement of a threshold change is being sent, the
\* recipient is never the chat that made the change.
C8_BroadcastSkipsInitiator == hpc = "bcast" => h.snap[h.i][2] # h.by

\* C9: a subscribe whose fetch returns None changes neither the dict nor the
\* persisted record; a subscribe whose fetch returns a price and whose save
\* succeeds leaves that price as the baseline and the dump of the whole dict
\* in the record; no baseline is ever None.
C9_SubscribeNeedsPrice ==
  [][ /\ \A i \in DOMAIN _subs' : _subs'[i].v \in Prices
      /\ \A i \in DOMAIN state_file'.doc : state_file'.doc[i].v \in Prices
      /\ \A u \in Uids :
           /\ Subscribe(u, None, "ok") => (_subs' = _subs /\ state_file' = state_file)
           /\ \A p \in Prices :
                Subscribe(u, p, "ok") =>
                  /\ Get(_subs', IntKey(u), None) = p
                  /\ state_file' = File(Dumps(_subs'))
    ]_vars

\* C9 witness: a subscriber whose baseline is a fetched price, the whole dict
\* persisted.
C9_Witness ==
  /\ \E u \in Uids : Get(_subs, IntKey(u), None) \in Prices
  /\ state_file = File(Dumps(_subs))

\* C10: the watcher never leaves its loop, every cycle ends in the sleep, and
\* it polls again and again.
C10_WatcherKeepsPolling ==
  /\ [](wpc \in {"polling", "send", "idle"})
  /\ []((wpc = "polling") => <>(wpc = "idle"))
  /\ []<>(wpc = "polling")

\* C10 witness: the first cycle found nobody subscribed, its save failed, and
\* the watcher sleeps.
C10_Witness ==
  /\ wpc = "idle"
  /\ state_tmp.st = "partial"
  /\ state_file = NoFile
  /\ _subs = EmptyDict

\* C11: the escalated log entry is emitted once per limit crossing: between two
\* successful fetches there is one entry when the counter of consecutive
\* failures has reached FAIL_LIMIT and none before, so the failures after the
\* fifth add none.
C11_OneEscalationPerCrossing ==
  esc = IF _fail_seq >= FAIL_LIMIT THEN 1 ELSE 0

\* the texts of Texts that are not a positive whole number
RejectedTexts == { <<"a">>, <<"0">>, <<"-", "5">> }

\* C12: a rejected threshold input (free text that is not a number, or a number
\* that is not positive) mutates nothing: the threshold in memory, both
\* persisted records and the baselines are what they were and no broadcast is
\* started; the awaited sender is answered with the rejection.
C12_RejectedInputMutatesNothing ==
  [][ \A u \in Uids, t \in RejectedTexts :
        MsgText(u, t, "ok") =>
          /\ _interval' = _interval
          /\ _subs' = _subs
          /\ UNCHANGED files
          /\ hpc' = "idle" /\ h' = h
          /\ await_int[u] => reply' = "rejected"
    ]_vars

\* a rejection has been answered with subscribers present, and the threshold
\* and both records are still what they were before any change
C12_Witness ==
  /\ reply = "rejected"
  /\ Len(_subs) = MaxSubs
  /\ _interval = DEFAULT_INT
  /\ collab_file = NoFile
  /\ state_file = File(Dumps(_subs))
  /\ hpc = "idle"

\* C13: a cycle whose fetch returns nothing sends no alert, changes no
\* baseline and writes nothing before it sleeps.
C13_EmptyFetchCycleDoesNothing ==
  [][ WatcherCycle(None, "ok") =>
        /\ wpc' = "idle" /\ w' = w
        /\ _subs' = _subs
        /\ UNCHANGED files
    ]_vars

\* the watcher asleep after a fetch that failed, with subscribers waiting and
\* no file written by it (the record is the one the handlers saved)
C13_Witness ==
  /\ wpc = "idle"
  /\ _fail_seq = 1
  /\ Len(_subs) = MaxSubs
  /\ \E i \in DOMAIN _subs : Due(MinOf(Prices), _subs[i].v, _interval)
  /\ state_file = File(Dumps(_subs))
  /\ faults = 0

\* what setting the threshold to n, its current value, must leave behind
SameValueSet(n) ==
  /\ _interval' = n
  /\ _subs' = _subs
  /\ state_file' = state_file /\ state_tmp' = state_tmp
  /\ collab_file' = File(<< Item(StrKey("interval"), n) >>)
  /\ hpc' = "bcast" => (h'.old = n /\ h'.new = n)

\* C14: setting the threshold to the value it already has leaves the threshold
\* and every baseline, in memory and persisted, unchanged; the threshold record
\* is still written and the announcement carries the value as old and as new.
C14_SettingSameValueIsIdempotent ==
  [][ /\ \A u \in Uids, n \in Choices :
           (_interval = n /\ StepButton(u, n, "ok")) => SameValueSet(n)
      /\ \A u \in Uids, t \in Texts \ RejectedTexts :
           (await_int[u] /\ _interval = ParseInt(t).val /\ MsgText(u, t, "ok"))
             => (SameValueSet(_interval) /\ (hpc' = "idle" => reply' = "changed"))
    ]_vars

\* an announcement with old = new on its way to a subscriber, the record
\* holding that value, the baselines as the subscribe handler seeded them
C14_Witness ==
  /\ hpc = "bcast"
  /\ h.old = h.new
  /\ _interval = h.new
  /\ collab_file = File(<< Item(StrKey("interval"), h.new) >>)
  /\ \A i \in DOMAIN _subs : _subs[i].v = SeedPrice

\* C15: a subscribe by an identifier that already has a baseline does not
\* re-seed it: the only steps that change the baseline of an identifier that
\* stays registered are the watcher's (stated for runs in which no save has
\* failed and the process was not killed).
C15_SubscribeKeepsExistingBaseline ==
  [][ (faults' = 0 /\ wpc' = wpc /\ w' = w) =>
        \A u \in Uids :
          (Has(_subs, IntKey(u)) /\ Has(_subs', IntKey(u)))
            => Get(_subs', IntKey(u), None) = Get(_subs, IntKey(u), None)
    ]_vars

\* C16: in a cycle whose fetch succeeded the baseline record is written once,
\* at the end: the watcher writes nothing while subscribers of the snapshot
\* are still to be dispatched, and the step that ends the cycle leaves in the
\* file the whole in-memory map of that moment (when the save succeeds).
C16_OneWriteAtCycleEnd ==
  [][ /\ (wpc' = "send" /\ <<wpc', w'>> # <<wpc, w>>) => UNCHANGED files
      /\ (SendDoneStep /\ wpc' = "idle" /\ faults' = faults)
           => (state_file' = File(Dumps(_subs')) /\ state_tmp' = NoFile)
      /\ \A p \in Prices :
           (WatcherCycle(p, "ok") /\ wpc' = "idle")
             => (state_file' = File(Dumps(_subs')) /\ state_tmp' = NoFile)
    ]_vars

\* a cycle at its second send with the first recipient's new baseline in
\* memory only: with no failed save behind it, the file differs from the map
\* only because the watcher has not written yet
C16_Witness ==
  /\ wpc = "send"
  /\ w.i = 2
  /\ faults = 0
  /\ Get(_subs, w.snap[1].k, None) = w.p
  /\ state_file # File(Dumps(_subs))

\* C17: the watcher reads the shared threshold once per cycle, after the fetch:
\* a cycle that starts evaluating uses the threshold of that moment (so the
\* value of every change completed before), and every later subscriber of the
\* cycle is compared with that same value, the one in the alert text, also
\* when a handler has changed the threshold while the cycle waited at a send.
C17_ThresholdReadOncePerCycle ==
  [][ /\ (wpc = "polling" /\ wpc' = "send") => w'.step = _interval
      /\ (SendDoneStep /\ wpc' = "send") =>
           /\ w'.step = w.step
           /\ DueAfter(w, w.i) # {}
           /\ w'.i = MinOf(DueAfter(w, w.i))
      /\ (SendDoneStep /\ wpc' = "idle") => DueAfter(w, w.i) = {}
    ]_vars

\* a cycle at its second send whose threshold is not the shared one any more,
\* and under the shared one this recipient would not be due
C17_Witness ==
  /\ wpc = "send"
  /\ w.i = 2
  /\ w.step # _interval
  /\ Abs(w.p - w.snap[2].v) >= w.step
  /\ Abs(w.p - w.snap[2].v) < _interval

\* outcomes of write_json that are a failed save
FailedSave == {"err_write", "err_replace"}

\* the threshold record as change_interval writes it
IntervalRecord(n) == File(<< Item(StrKey("interval"), n) >>)

\* C18: a failed save is not fatal and changes nothing in memory: the
\* operation completes with the map or the threshold updated and the file as
\* it was, and every save that succeeds writes the whole current record, so
\* the next successful save makes the file equal to memory again.
C18_FailedSaveKeepsMemory ==
  [][ /\ \A u \in Uids, wo \in FailedSave :
           Subscribe(u, SeedPrice, wo) =>
             /\ Get(_subs', IntKey(u), None) = SeedPrice
             /\ state_file' = state_file
             /\ wpc' = wpc /\ w' = w
      /\ \A u \in Uids, n \in Choices, wo \in FailedSave :
           StepButton(u, n, wo) =>
             /\ _interval' = n
             /\ collab_file' = collab_file
             /\ wpc' = wpc /\ w' = w
      /\ \A ok \in BOOLEAN, wo \in FailedSave :
           WatcherSendDone(ok, wo) =>
             /\ wpc' = "idle"
             /\ ok => Get(_subs', w.snap[w.i].k, None) = w.p
             /\ state_file' = state_file
      /\ \A u \in Uids : Subscribe(u, SeedPrice, "ok") => state_file' = File(Dumps(_subs'))
      /\ \A u \in Uids, n \in Choices :
           StepButton(u, n, "ok") => collab_file' = IntervalRecord(_interval')
      /\ state_file' # state_file => state_file' = File(Dumps(_subs'))
      /\ collab_file' # collab_file => collab_file' = IntervalRecord(_interval')
    ]_vars

\* the one failed save of the run was a save of the baseline record (the
\* threshold record was never written), and a later save has replaced the
\* temporary file it left: the file is the whole current map again
C18_Witness ==
  /\ faults = 1
  /\ collab_file = NoFile /\ collab_tmp = NoFile
  /\ state_tmp = NoFile
  /\ _subs # EmptyDict
  /\ state_file = File(Dumps(_subs))

\* C19: the watcher never begins an alert send to an identifier whose
\* unsubscribe has completed: whenever a send of a cycle begins, its recipient
\* has a baseline in the map (stated for runs in which no save has failed and
\* the process was not killed).
C19_NoSendAfterUnsubscribe ==
  [][ (faults' = 0 /\ wpc' = "send" /\ <<wpc', w'>> # <<wpc, w>>)
        => Has(_subs', w'.snap[w'.i].k)
    ]_vars

\* C20: a free-text message changes the threshold only if its sender's
\* awaiting flag is set, and the flag is set only by that sender's custom
\* button and cleared by the sender's first text after it, accepted or
\* rejected: text from a sender without the flag changes nothing at all, a
\* text from a sender with the flag leaves the flag unset, and no text sets
\* or clears the flag of another sender.
C20_OneChangePerButtonPress ==
  [][ /\ \A u \in Uids : (await_int'[u] /\ ~await_int[u]) => CustomButton(u)
      /\ \A u \in Uids, t \in Texts, wo \in WriteOutcomes :
           MsgText(u, t, wo) =>
             /\ ~await_int[u] => UNCHANGED vars
             /\ ~await_int'[u]
             /\ \A v \in Uids \ {u} : await_int'[v] => await_int[v]
             /\ (_interval' # _interval /\ ~Crashes(wo)) =>
                   (await_int[u] /\ t \notin RejectedTexts /\ _interval' = ParseInt(t).val)
    ]_vars

\* sender 1 pressed the button and had a text rejected, sender 2 pressed it
\* and has not written yet: the rejection used up the flag of sender 1 only
C20_Witness ==
  /\ reply = "rejected"
  /\ ~await_int[1]
  /\ await_int[2]
  /\ _interval = DEFAULT_INT
  /\ collab_file = NoFile

====
